---- MODULE Spec2Model ----
(***************************************************************************)
(* Model of backend/main.py: the POST /api/analyze handler, the helpers it *)
(* calls (URL parser, metadata fetcher, transcript fetcher, recommendation *)
(* generator, SEO scorer) and the HTTPException handler.                   *)
(*                                                                         *)
(* Python strings whose length or characters matter are sequences of       *)
(* one-character strings.  Error details are sequences of text pieces (the *)
(* pieces an f-string concatenates); the empty detail is << >>.            *)
(* A JSON object is a function whose DOMAIN is the set of keys present.    *)
(***************************************************************************)
EXTENDS Integers, Sequences, FiniteSets, TLC

VARIABLES
    environ,          \* process environment: os.getenv reads it
    str_impl,         \* which str(HTTPException) the installed Starlette has
    url,              \* VideoURL.url of the request being handled
    pc,               \* position of the request inside analyze_video
    calls,            \* outbound calls made for the request and their
                      \* replies, in order
    video_id,         \* local of analyze_video
    video_info,       \* local of analyze_video
    transcript_text,  \* local of analyze_video
    gemini_analysis,  \* local of analyze_video
    failed_at,        \* the step whose exception reached the outer except
    raised,           \* the HTTPException leaving analyze_video
    response,         \* the HTTP response sent to the client
    arg,              \* input of the helper function under test
    ret               \* its result

vars == <<environ, str_impl, url, pc, calls, video_id, video_info,
          transcript_text, gemini_analysis, failed_at, raised, response,
          arg, ret>>

(***************************************************************************)
(* Bounds of the model.                                                    *)
(***************************************************************************)
MaxTitleLen == 72
MaxDescLen == 251
MaxTags == 16
MaxSegs == 1
MaxItems == 1
MaxEntries == 2

(***************************************************************************)
(* Python values.                                                          *)
(***************************************************************************)
None == "<None>"
EmptyObj == [k \in {} |-> k]
Unset == [tag |-> "unset"]

Ok(v) == [tag |-> "ok", value |-> v]

HTTPException(status_code, detail) ==
    [tag |-> "HTTPException", status_code |-> status_code, detail |-> detail]

\* dict.get(key, default)
Get(obj, key, default) == IF key \in DOMAIN obj THEN obj[key] ELSE default

\* n copies of the character c
Rep(c, n) == [i \in 1..n |-> c]

\* os.getenv(name)
getenv(env, name) == IF name \in DOMAIN env THEN env[name] ELSE None

\* truth value of an optional str: None and "" are falsy
Truthy(s) == s \notin {None, ""}

\* str(exc) of a starlette HTTPException: "<status>: <detail>" where the class
\* defines __str__, and "" where it does not (it passes no args to Exception)
StrOfHTTPException(impl, e) ==
    IF impl = "status_detail"
    THEN <<ToString(e.status_code), ": ">> \o e.detail
    ELSE << >>

(***************************************************************************)
(* extract_video_id                                                        *)
(***************************************************************************)
IdLen == 11

Digits == {"0", "1", "2", "3", "4", "5", "6", "7", "8", "9"}

IdChars ==
    Digits \cup
    {"A", "B", "C", "D", "E", "F", "G", "H", "I", "J", "K", "L", "M",
     "N", "O", "P", "Q", "R", "S", "T", "U", "V", "W", "X", "Y", "Z"} \cup
    {"a", "b", "c", "d", "e", "f", "g", "h", "i", "j", "k", "l", "m",
     "n", "o", "p", "q", "r", "s", "t", "u", "v", "w", "x", "y", "z"} \cup
    {"_", "-"}

\* the literal lit occurs in s at position i
LitAt(s, i, lit) ==
    /\ i + Len(lit) - 1 <= Len(s)
    /\ \A k \in 1..Len(lit) : s[i + k - 1] = lit[k]

\* [0-9A-Za-z_-]{11} matches in s at position i
IdRunAt(s, i) ==
    /\ i + IdLen - 1 <= Len(s)
    /\ \A k \in 0..(IdLen - 1) : s[i + k] \in IdChars

\* (?:alt1|alt2|...)([0-9A-Za-z_-]{11}) matches in s at position i; a
\* trailing .* matches whatever follows and does not change group 1
MatchAt(alts, s, i) ==
    \E a \in 1..Len(alts) : LitAt(s, i, alts[a]) /\ IdRunAt(s, i + Len(alts[a]))

\* the first alternative, in the order written, that matches at position i
FirstAlt(alts, s, i) ==
    CHOOSE a \in 1..Len(alts) :
        /\ LitAt(s, i, alts[a]) /\ IdRunAt(s, i + Len(alts[a]))
        /\ \A b \in 1..(a - 1) :
              ~(LitAt(s, i, alts[b]) /\ IdRunAt(s, i + Len(alts[b])))

\* re.search: the leftmost position at which the pattern matches
re_search(alts, s) ==
    IF \E i \in 1..Len(s) : MatchAt(alts, s, i)
    THEN LET i == CHOOSE j \in 1..Len(s) :
                     /\ MatchAt(alts, s, j)
                     /\ \A k \in 1..(j - 1) : ~MatchAt(alts, s, k)
             start == i + Len(alts[FirstAlt(alts, s, i)])
         IN  [matched |-> TRUE, group1 |-> SubSeq(s, start, start + IdLen - 1)]
    ELSE [matched |-> FALSE]

\* the three patterns, each as the alternatives of its non-capturing group
patterns ==
    << << <<"v", "=">>, <<"/">> >>,
       << <<"e", "m", "b", "e", "d", "/">> >>,
       << <<"w", "a", "t", "c", "h", "?", "v", "=">> >> >>

RECURSIVE try_patterns(_, _, _)
try_patterns(pats, p, s) ==
    IF p > Len(pats)
    THEN HTTPException(400, <<"Invalid YouTube URL">>)
    ELSE LET match == re_search(pats[p], s)
         IN  IF match.matched THEN Ok(match.group1)
             ELSE try_patterns(pats, p + 1, s)

\* a mutation: a URL no pattern matches yields an empty id instead of raising
extract_video_id_lenient(s) ==
    LET r == try_patterns(patterns, 1, s)
    IN  IF r.tag = "ok" THEN r ELSE Ok(<< >>)

extract_video_id(s) == try_patterns(patterns, 1, s)

(***************************************************************************)
(* calculate_seo_score                                                     *)
(***************************************************************************)
\* a mutation: the description bands are exclusive on their lower bound
calculate_seo_score_strict(title, description, tags, transcript_available) ==
    (IF title # << >>
     THEN IF 20 <= Len(title) /\ Len(title) <= 70 THEN 20
          ELSE IF Len(title) < 20 THEN 10 ELSE 0
     ELSE 0)
    + (IF description # << >>
       THEN IF Len(description) > 250 THEN 30
            ELSE IF Len(description) > 100 THEN 15 ELSE 0
       ELSE 0)
    + (IF tags # << >>
       THEN IF Len(tags) >= 15 THEN 30
            ELSE IF Len(tags) >= 8 THEN 15 ELSE 0
       ELSE 0)
    + (IF transcript_available THEN 20 ELSE 0)

calculate_seo_score(title, description, tags, transcript_available) ==
    (IF title # << >>
     THEN IF 20 <= Len(title) /\ Len(title) <= 70 THEN 20
          ELSE IF Len(title) < 20 THEN 10 ELSE 0
     ELSE 0)
    + (IF description # << >>
       THEN IF Len(description) >= 250 THEN 30
            ELSE IF Len(description) >= 100 THEN 15 ELSE 0
       ELSE 0)
    + (IF tags # << >>
       THEN IF Len(tags) >= 15 THEN 30
            ELSE IF Len(tags) >= 8 THEN 15 ELSE 0
       ELSE 0)
    + (IF transcript_available THEN 20 ELSE 0)

(***************************************************************************)
(* get_video_details                                                       *)
(***************************************************************************)
DigitValue(c) ==
    CASE c = "0" -> 0 [] c = "1" -> 1 [] c = "2" -> 2 [] c = "3" -> 3
      [] c = "4" -> 4 [] c = "5" -> 5 [] c = "6" -> 6 [] c = "7" -> 7
      [] c = "8" -> 8 [] c = "9" -> 9

RECURSIVE DecimalValue(_)
DecimalValue(s) ==
    IF s = << >> THEN 0
    ELSE 10 * DecimalValue(SubSeq(s, 1, Len(s) - 1)) + DigitValue(s[Len(s)])

\* int(text): the value of a decimal numeral, ValueError for anything else
IsNumeral(s) == s # << >> /\ \A i \in 1..Len(s) : s[i] \in Digits

\* requests.Response.raise_for_status raises for 4xx and 5xx
RaisesForStatus(status) == 400 <= status /\ status < 600

\* the HTTPException raised by the except clause that wraps the whole try
FetchFailed(text) == HTTPException(500, <<"Failed to fetch video details: ">> \o text)

\* a mutation: the view count is read with statistics["viewCount"], so a
\* response without it raises KeyError
details_from_data_subscript(impl, data) ==
    IF "items" \notin DOMAIN data
    THEN FetchFailed(<<"'items'">>)
    ELSE IF data.items = << >>
    THEN FetchFailed(StrOfHTTPException(impl, HTTPException(404, <<"Video not found">>)))
    ELSE LET video_info_0 == data.items[1]
             snippet == Get(video_info_0, "snippet", EmptyObj)
             statistics == Get(video_info_0, "statistics", EmptyObj)
             content_details == Get(video_info_0, "contentDetails", EmptyObj)
         IN  IF "viewCount" \notin DOMAIN statistics
             THEN FetchFailed(<<"'viewCount'">>)
             ELSE IF ~IsNumeral(statistics.viewCount)
             THEN FetchFailed(<<"invalid literal for int() with base 10">>)
             ELSE Ok([title |-> Get(snippet, "title", << >>),
                      description |-> Get(snippet, "description", << >>),
                      tags |-> Get(snippet, "tags", << >>),
                      thumbnail |-> Get(Get(Get(snippet, "thumbnails", EmptyObj),
                                            "high", EmptyObj), "url", << >>),
                      view_count |-> DecimalValue(statistics.viewCount),
                      duration |-> Get(content_details, "duration", << >>)])

\* the body of the try block once response.json() has produced data
details_from_data(impl, data) ==
    IF "items" \notin DOMAIN data
    THEN FetchFailed(<<"'items'">>)
    ELSE IF data.items = << >>
    THEN FetchFailed(StrOfHTTPException(impl, HTTPException(404, <<"Video not found">>)))
    ELSE LET video_info_0 == data.items[1]
             snippet == Get(video_info_0, "snippet", EmptyObj)
             statistics == Get(video_info_0, "statistics", EmptyObj)
             content_details == Get(video_info_0, "contentDetails", EmptyObj)
         IN  IF "viewCount" \in DOMAIN statistics /\ ~IsNumeral(statistics.viewCount)
             THEN FetchFailed(<<"invalid literal for int() with base 10">>)
             ELSE Ok([title |-> Get(snippet, "title", << >>),
                      description |-> Get(snippet, "description", << >>),
                      tags |-> Get(snippet, "tags", << >>),
                      thumbnail |-> Get(Get(Get(snippet, "thumbnails", EmptyObj),
                                            "high", EmptyObj), "url", << >>),
                      view_count |-> IF "viewCount" \in DOMAIN statistics
                                     THEN DecimalValue(statistics.viewCount)
                                     ELSE 0,
                      duration |-> Get(content_details, "duration", << >>)])

\* the metadata service is called only when the key is configured
CallsMetadataService(env) == Truthy(getenv(env, "YOUTUBE_API_KEY"))

get_video_details(env, impl, upstream) ==
    IF ~Truthy(getenv(env, "YOUTUBE_API_KEY"))
    THEN HTTPException(500, <<"YouTube API key not configured">>)
    ELSE IF upstream.kind = "error"
    THEN FetchFailed(upstream.text)
    ELSE IF RaisesForStatus(upstream.status)
    THEN FetchFailed(<<ToString(upstream.status), " Client Error">>)
    ELSE IF ~upstream.is_json
    THEN FetchFailed(<<"Expecting value">>)
    ELSE details_from_data(impl, upstream.data)

(***************************************************************************)
(* get_youtube_transcript                                                  *)
(***************************************************************************)
\* " ".join(texts)
RECURSIVE JoinSpace(_)
JoinSpace(texts) ==
    IF texts = << >> THEN << >>
    ELSE IF Len(texts) = 1 THEN texts[1]
    ELSE texts[1] \o <<" ">> \o JoinSpace(Tail(texts))

\* a mutation: the failure text is returned as the transcript
get_youtube_transcript_echo(upstream) ==
    IF upstream.kind = "error"
    THEN <<"T", "r", "a", "n", "s", "c", "r", "i", "p", "t", " ",
           "e", "r", "r", "o", "r">>
    ELSE IF \E i \in 1..Len(upstream.entries) : "text" \notin DOMAIN upstream.entries[i]
    THEN << >>
    ELSE JoinSpace([i \in 1..Len(upstream.entries) |-> upstream.entries[i].text])

get_youtube_transcript(upstream) ==
    IF upstream.kind = "error"
    THEN << >>
    ELSE IF \E i \in 1..Len(upstream.entries) : "text" \notin DOMAIN upstream.entries[i]
    THEN << >>
    ELSE JoinSpace([i \in 1..Len(upstream.entries) |-> upstream.entries[i].text])

(***************************************************************************)
(* analyze_video_with_gemini                                               *)
(***************************************************************************)
analyze_video_with_gemini(upstream) ==
    IF upstream.kind = "error"
    THEN HTTPException(500, <<"Gemini API error: ">> \o upstream.text)
    ELSE Ok(upstream.text)

(***************************************************************************)
(* Inputs of the request model.                                            *)
(***************************************************************************)
SchemeHttps == <<"h", "t", "t", "p", "s", ":", "/", "/">>
HostWww == <<"w", "w", "w", ".", "y", "o", "u", "t", "u", "b", "e", ".", "c", "o", "m">>
HostShort == <<"y", "o", "u", "t", "u", ".", "b", "e">>
HostNoCookie == <<"y", "o", "u", "t", "u", "b", "e", "-", "n", "o", "c", "o", "o", "k", "i", "e", ".", "c", "o", "m">>
WatchV == <<"/", "w", "a", "t", "c", "h", "?", "v", "=">>
WatchFeatV == <<"/", "w", "a", "t", "c", "h", "?", "f", "e", "a", "t", "u", "r", "e", "=", "s", "h", "a", "r", "e", "&", "v", "=">>
EmbedPath == <<"/", "e", "m", "b", "e", "d", "/">>
SlashPath == <<"/">>
SegShorts == <<"/", "s", "h", "o", "r", "t", "s">>
SegAttribution == <<"/", "a", "t", "t", "r", "i", "b", "u", "t", "i", "o", "n", "_", "l", "i", "n", "k">>
SufT == <<"&", "t", "=", "4", "2", "s">>
IdA == <<"d", "Q", "w", "4", "w", "9", "W", "g", "X", "c", "Q">>
IdB == <<"a", "_", "b", "-", "c", "_", "d", "-", "e", "_", "f">>
NotUrl == <<"n", "o", "t", " ", "a", " ", "u", "r", "l">>
TooShort == <<"/", "w", "a", "t", "c", "h", "?", "v", "=", "s", "h", "o", "r", "t">>
Duration == <<"P", "T", "1", "0", "M", "1", "3", "S">>
ThumbUrl == <<"h", "q", ".", "j", "p", "g">>

\* the URLs a request of the request model carries
RequestUrls ==
    {SchemeHttps \o HostWww \o WatchV \o IdA,
     SchemeHttps \o HostShort \o SlashPath \o IdB,
     NotUrl,
     SchemeHttps \o HostWww \o TooShort}

\* the values GEMINI_API_KEY and YOUTUBE_API_KEY take: unset, empty, set
Environs ==
    UNION {[names -> {"", "key"}] :
             names \in SUBSET {"GEMINI_API_KEY", "YOUTUBE_API_KEY"}}

StrImpls == {"status_detail", "empty"}

\* a video resource with every field, as in the end-to-end scenario:
\* title of 30 characters, description of 300, 10 tags
FullItem ==
    [snippet |-> [title |-> Rep("t", 30),
                  description |-> Rep("d", 300),
                  tags |-> [i \in 1..10 |-> <<"k">>],
                  thumbnails |-> [high |-> [url |-> ThumbUrl]]],
     statistics |-> [viewCount |-> <<"4", "2">>],
     contentDetails |-> [duration |-> Duration]]

\* what the metadata service does when called in the request model
MetadataUpstreams ==
    {[kind |-> "error", text |-> <<"Connection refused">>],
     [kind |-> "response", status |-> 403, is_json |-> TRUE, data |-> EmptyObj],
     [kind |-> "response", status |-> 200, is_json |-> TRUE,
      data |-> [items |-> << >>]],
     [kind |-> "response", status |-> 200, is_json |-> TRUE,
      data |-> [items |-> <<EmptyObj>>]],
     [kind |-> "response", status |-> 200, is_json |-> TRUE,
      data |-> [items |-> <<FullItem>>]]}

\* the transcript entries the transcript service returns
Entries ==
    {[text |-> << >>, start |-> 0],
     [text |-> <<"h", "i">>, start |-> 0],
     [start |-> 0]}

SeqsUpTo(S, n) == UNION {[1..k -> S] : k \in 0..n}

\* what the transcript service does when called
TranscriptUpstreams ==
    {[kind |-> "error"]} \cup
    {[kind |-> "ok", entries |-> es] : es \in SeqsUpTo(Entries, MaxEntries)}

\* what the generative-language service does when called
GeminiUpstreams ==
    {[kind |-> "error", text |-> <<"quota exceeded">>],
     [kind |-> "ok", text |-> <<"{}">>]}

(***************************************************************************)
(* analyze_video: POST /api/analyze                                        *)
(***************************************************************************)
\* the locals of analyze_video and the helper variables, before any step
Idle ==
    /\ calls = << >>
    /\ video_id = << >>
    /\ video_info = Unset
    /\ transcript_text = << >>
    /\ gemini_analysis = << >>
    /\ failed_at = "none"
    /\ raised = Unset
    /\ response = Unset

Init ==
    /\ environ \in Environs
    /\ str_impl \in StrImpls
    /\ url \in RequestUrls
    /\ pc = "check_key"
    /\ Idle
    /\ arg = Unset
    /\ ret = Unset

\* an outbound call to a service and what the service did
Call(service, upstream) == [service |-> service, reply |-> upstream]

\* except Exception as e: raise HTTPException(status_code=400, detail=str(e))
outer_except(impl, e) == HTTPException(400, StrOfHTTPException(impl, e))

\* an exception e raised by the named step leaves analyze_video
Fails(step, e) ==
    /\ raised' = outer_except(str_impl, e)
    /\ failed_at' = step
    /\ pc' = "raised"

\* a mutation: the credential is not checked before the fetches
check_key_skipped ==
    /\ pc = "check_key"
    /\ pc' = "extract"
    /\ UNCHANGED <<environ, str_impl, url, calls, video_id, video_info,
                   transcript_text, gemini_analysis, failed_at, raised,
                   response, arg, ret>>

check_key ==
    /\ pc = "check_key"
    /\ IF ~Truthy(getenv(environ, "GEMINI_API_KEY"))
       THEN Fails("check_key", HTTPException(500, <<"Gemini API key not configured">>))
       ELSE pc' = "extract" /\ UNCHANGED <<failed_at, raised>>
    /\ UNCHANGED <<environ, str_impl, url, calls, video_id, video_info,
                   transcript_text, gemini_analysis, response, arg, ret>>

extract_id ==
    /\ pc = "extract"
    /\ LET r == extract_video_id(url)
       IN  IF r.tag = "ok"
           THEN /\ video_id' = r.value
                /\ pc' = "details"
                /\ UNCHANGED <<failed_at, raised>>
           ELSE /\ Fails("extract", r)
                /\ UNCHANGED video_id
    /\ UNCHANGED <<environ, str_impl, url, calls, video_info,
                   transcript_text, gemini_analysis, response, arg, ret>>

\* a mutation: a failed metadata request is sent a second time
fetch_details_retry ==
    /\ pc = "details"
    /\ \E upstream \in MetadataUpstreams :
          LET r == get_video_details(environ, str_impl, upstream)
          IN  /\ calls' = IF ~CallsMetadataService(environ) THEN calls
                          ELSE IF r.tag = "ok" THEN Append(calls, Call("metadata", upstream))
                          ELSE calls \o <<Call("metadata", upstream),
                                          Call("metadata", upstream)>>
              /\ IF r.tag = "ok"
                 THEN /\ video_info' = r.value
                      /\ pc' = "transcript"
                      /\ UNCHANGED <<failed_at, raised>>
                 ELSE /\ Fails("details", r)
                      /\ UNCHANGED video_info
    /\ UNCHANGED <<environ, str_impl, url, video_id,
                   transcript_text, gemini_analysis, response, arg, ret>>

fetch_details ==
    /\ pc = "details"
    /\ \E upstream \in MetadataUpstreams :
          LET r == get_video_details(environ, str_impl, upstream)
          IN  /\ calls' = IF CallsMetadataService(environ)
                          THEN Append(calls, Call("metadata", upstream))
                          ELSE calls
              /\ IF r.tag = "ok"
                 THEN /\ video_info' = r.value
                      /\ pc' = "transcript"
                      /\ UNCHANGED <<failed_at, raised>>
                 ELSE /\ Fails("details", r)
                      /\ UNCHANGED video_info
    /\ UNCHANGED <<environ, str_impl, url, video_id,
                   transcript_text, gemini_analysis, response, arg, ret>>

fetch_transcript ==
    /\ pc = "transcript"
    /\ \E upstream \in TranscriptUpstreams :
          /\ calls' = Append(calls, Call("transcript", upstream))
          /\ transcript_text' = get_youtube_transcript(upstream)
    /\ pc' = "gemini"
    /\ UNCHANGED <<environ, str_impl, url, video_id, video_info,
                   gemini_analysis, failed_at, raised, response, arg, ret>>

generate ==
    /\ pc = "gemini"
    /\ \E upstream \in GeminiUpstreams :
          LET r == analyze_video_with_gemini(upstream)
          IN  /\ calls' = Append(calls, Call("gemini", upstream))
              /\ IF r.tag = "ok"
                 THEN /\ gemini_analysis' = r.value
                      /\ pc' = "assemble"
                      /\ UNCHANGED <<failed_at, raised>>
                 ELSE /\ Fails("gemini", r)
                      /\ UNCHANGED gemini_analysis
    /\ UNCHANGED <<environ, str_impl, url, video_id, video_info,
                   transcript_text, response, arg, ret>>

\* the response body of a successful request
analysis(info, transcript, generated) ==
    [title |-> info.title,
     views |-> info.view_count,
     length |-> info.duration,
     description |-> info.description,
     keywords |-> info.tags,
     thumbnail_url |-> info.thumbnail,
     seo_score |-> calculate_seo_score(info.title, info.description, info.tags,
                                       transcript # << >>),
     gemini_analysis |-> generated,
     has_transcript |-> transcript # << >>]

\* a mutation: the error response echoes the request's URL next to the detail
error_content_with_url(exc) == [detail |-> exc.detail, url |-> "url"]

\* the body http_exception_handler sends
error_content(exc) == [detail |-> exc.detail]

assemble ==
    /\ pc = "assemble"
    /\ response' = [status_code |-> 200,
                    content |-> analysis(video_info, transcript_text, gemini_analysis)]
    /\ pc' = "done"
    /\ UNCHANGED <<environ, str_impl, url, calls, video_id, video_info,
                   transcript_text, gemini_analysis, failed_at, raised, arg, ret>>

http_exception_handler ==
    /\ pc = "raised"
    /\ response' = [status_code |-> raised.status_code,
                    content |-> error_content(raised)]
    /\ pc' = "done"
    /\ UNCHANGED <<environ, str_impl, url, calls, video_id, video_info,
                   transcript_text, gemini_analysis, failed_at, raised, arg, ret>>

Next ==
    \/ check_key
    \/ extract_id
    \/ fetch_details
    \/ fetch_transcript
    \/ generate
    \/ assemble
    \/ http_exception_handler

Spec == Init /\ [][Next]_vars

(***************************************************************************)
(* Properties of the request model.                                        *)
(***************************************************************************)
Services == [i \in 1..Len(calls) |-> calls[i].service]

\* the reply of the named service was of the given kind
Replied(service, kind) ==
    \E i \in 1..Len(calls) :
        calls[i].service = service /\ calls[i].reply.kind = kind

NoPatternMatches(s) ==
    \A p \in 1..Len(patterns) : ~re_search(patterns[p], s).matched

GeminiKeyMissing == ~Truthy(getenv(environ, "GEMINI_API_KEY"))

ResultFields ==
    {"title", "views", "length", "description", "keywords", "thumbnail_url",
     "seo_score", "gemini_analysis", "has_transcript"}

\* the response is the full result object
IsFullResult ==
    /\ response.status_code = 200
    /\ DOMAIN response.content = ResultFields

\* the response is an error object carrying only a detail
IsErrorObject ==
    /\ response.status_code \in 400..599
    /\ DOMAIN response.content = {"detail"}

\* C1: when the transcript service call fails, get_youtube_transcript returns
\* the empty string, and a request whose other steps succeed still completes
\* with the full result, in which has_transcript is false.
C1_TranscriptFailureDegrades ==
    Replied("transcript", "error") =>
        /\ transcript_text = << >>
        /\ failed_at \notin {"transcript"}
        /\ (pc = "done" /\ Replied("gemini", "ok")) =>
              /\ IsFullResult
              /\ response.content.has_transcript = FALSE

C1_Witness ==
    /\ pc = "done"
    /\ Replied("transcript", "error")
    /\ Replied("gemini", "ok")
    /\ response.status_code = 200

\* C2 (as claimed): a request made while GEMINI_API_KEY is missing ends with
\* status 500 and the configuration-error message as its detail.
C2_MissingKeyIs500 ==
    (pc = "done" /\ GeminiKeyMissing) =>
        /\ response.status_code = 500
        /\ response.content.detail = <<"Gemini API key not configured">>

\* C3: a request whose URL matches none of the three patterns is answered
\* with status 400 and makes no outbound call.
C3_InvalidUrlIs400NoCalls ==
    NoPatternMatches(url) =>
        /\ calls = << >>
        /\ pc = "done" => response.status_code = 400 /\ IsErrorObject

C3_Witness ==
    /\ pc = "done"
    /\ NoPatternMatches(url)
    /\ ~GeminiKeyMissing
    /\ failed_at = "extract"
    /\ response.status_code = 400

\* C4: a request ends either with the full result of nine fields, and then
\* URL parsing, the metadata fetch and the generation all succeeded, or with
\* an error object carrying only a detail; before it ends nothing is sent.
C4_FullResultOrError ==
    /\ pc # "done" => response = Unset
    /\ pc = "done" =>
          \/ /\ IsFullResult
             /\ ~NoPatternMatches(url)
             /\ \E i \in 1..Len(calls) :
                   /\ calls[i].service = "metadata"
                   /\ get_video_details(environ, str_impl, calls[i].reply).tag = "ok"
             /\ Replied("gemini", "ok")
          \/ /\ IsErrorObject
             /\ \A i \in 1..Len(response.content.detail) :
                   response.content.detail[i] \in STRING

C4_Witness ==
    /\ pc = "done"
    /\ Replied("gemini", "error")
    /\ IsErrorObject

\* C5: the outbound calls of a request are made in the order metadata,
\* transcript, generation, each at most once, and no call follows the step
\* that failed.
C5_CallsInOrderOnce ==
    /\ Services \in {<< >>, <<"metadata">>, <<"metadata", "transcript">>,
                     <<"metadata", "transcript", "gemini">>}
    /\ failed_at \in {"check_key", "extract"} => calls = << >>
    /\ failed_at = "details" => Len(calls) <= 1
    /\ failed_at = "gemini" => Len(calls) = 3
    /\ (pc = "done" /\ Len(calls) < 3) => failed_at # "none"

C5_Witness ==
    /\ pc = "done"
    /\ failed_at = "details"
    /\ Services = <<"metadata">>

\* C6: when GEMINI_API_KEY is missing the request fails before any outbound
\* call is made.
C6_MissingKeyNoCalls ==
    GeminiKeyMissing =>
        /\ calls = << >>
        /\ pc \in {"check_key", "raised", "done"}
        /\ pc = "done" => IsErrorObject

C6_Witness ==
    /\ pc = "done"
    /\ GeminiKeyMissing
    /\ failed_at = "check_key"
    /\ calls = << >>

\* C7 (as claimed): a request whose generative-language call fails ends with
\* status 500 and a detail carrying the upstream error text.
C7_GenerationFailureIs500 ==
    (pc = "done" /\ Replied("gemini", "error")) =>
        /\ response.status_code = 500
        /\ \E i \in 1..Len(response.content.detail) :
              response.content.detail[i] = "quota exceeded"

(***************************************************************************)
(* calculate_seo_score on its own.                                         *)
(***************************************************************************)
\* the values of the request model's variables while a helper is exercised
NoRequest ==
    /\ environ = EmptyObj
    /\ url = << >>
    /\ Idle

\* the lengths at the edges of the bands
TitleEdges == {0, 1, 19, 20, 21, 69, 70, 71, MaxTitleLen}
DescriptionEdges == {0, 1, 99, 100, 101, 249, 250, MaxDescLen}
TagsEdges == {0, 1, 7, 8, 9, 14, 15, MaxTags}

\* (title length, description length, tag count): every title length and tag
\* count with the description lengths at the band edges, and every
\* description length with the title lengths and tag counts at the band edges
ScoreShapes ==
    ((0..MaxTitleLen) \X DescriptionEdges \X (0..MaxTags))
    \cup (TitleEdges \X (0..MaxDescLen) \X TagsEdges)

ScoreInputs ==
    {[title |-> Rep("t", shape[1]),
      description |-> Rep("d", shape[2]),
      tags |-> [i \in 1..shape[3] |-> <<"k">>],
      transcript_available |-> f] :
        shape \in ScoreShapes, f \in BOOLEAN}

InitScore ==
    /\ arg \in ScoreInputs
    /\ ret = Unset
    /\ pc = "score_call"
    /\ str_impl = "empty"
    /\ NoRequest

call_calculate_seo_score ==
    /\ pc = "score_call"
    /\ ret' = calculate_seo_score(arg.title, arg.description, arg.tags,
                                  arg.transcript_available)
    /\ pc' = "score_returned"
    /\ UNCHANGED <<environ, str_impl, url, calls, video_id, video_info,
                   transcript_text, gemini_analysis, failed_at, raised,
                   response, arg>>

NextScore == call_calculate_seo_score

SpecScore == InitScore /\ [][NextScore]_vars

\* the band contributions as the scoring rules state them
TitleBand(n) == IF n >= 20 /\ n <= 70 THEN 20 ELSE IF n >= 1 /\ n <= 19 THEN 10 ELSE 0
DescriptionBand(n) == IF n >= 250 THEN 30 ELSE IF n >= 100 /\ n <= 249 THEN 15 ELSE 0
TagsBand(n) == IF n >= 15 THEN 30 ELSE IF n >= 8 /\ n <= 14 THEN 15 ELSE 0
TranscriptBand(f) == IF f THEN 20 ELSE 0

\* C8: calculate_seo_score returns the sum of the four band contributions,
\* an integer between 0 and 100.
C8_ScoreIsSumOfBands ==
    pc = "score_returned" =>
        /\ ret = TitleBand(Len(arg.title)) + DescriptionBand(Len(arg.description))
                 + TagsBand(Len(arg.tags)) + TranscriptBand(arg.transcript_available)
        /\ ret \in 0..100

C8_Witness ==
    /\ pc = "score_returned"
    /\ Len(arg.title) = 70
    /\ Len(arg.description) = 250
    /\ Len(arg.tags) = 8
    /\ arg.transcript_available
    /\ ret = 85

(***************************************************************************)
(* extract_video_id on its own.                                            *)
(***************************************************************************)
RECURSIVE Flatten(_)
Flatten(ss) == IF ss = << >> THEN << >> ELSE Head(ss) \o Flatten(Tail(ss))

Schemes == {<< >>, SchemeHttps}
Hosts == {HostWww, HostShort, HostNoCookie}
Segments == {SegShorts, SegAttribution}
IdShapes == {WatchV, WatchFeatV, EmbedPath, SlashPath}
Ids == {IdA, IdB}
Suffixes == {<< >>, SufT}

\* URLs that carry a well-formed id in one of the accepted shapes, with the
\* id they carry, and strings that carry none
UrlInputs ==
    {[url |-> scheme \o host \o Flatten(segs) \o shape \o id \o suffix,
      id |-> id, has_id |-> TRUE] :
        scheme \in Schemes, host \in Hosts, segs \in SeqsUpTo(Segments, MaxSegs),
        shape \in IdShapes, id \in Ids, suffix \in Suffixes}
    \cup {[url |-> u, id |-> << >>, has_id |-> FALSE] :
            u \in {<< >>, NotUrl, SchemeHttps \o HostWww \o TooShort}}

InitUrl ==
    /\ arg \in UrlInputs
    /\ ret = Unset
    /\ pc = "url_call"
    /\ str_impl = "empty"
    /\ NoRequest

call_extract_video_id ==
    /\ pc = "url_call"
    /\ ret' = extract_video_id(arg.url)
    /\ pc' = "url_returned"
    /\ UNCHANGED <<environ, str_impl, url, calls, video_id, video_info,
                   transcript_text, gemini_analysis, failed_at, raised,
                   response, arg>>

NextUrl == call_extract_video_id

SpecUrl == InitUrl /\ [][NextUrl]_vars

\* C9 (as claimed): for a URL carrying a well-formed id in an accepted shape,
\* extract_video_id returns exactly that id, whatever the rest of the URL is.
C9_ParserReturnsTheId ==
    (pc = "url_returned" /\ arg.has_id) => ret = Ok(arg.id)

(***************************************************************************)
(* get_video_details on its own.                                           *)
(***************************************************************************)
\* an object that has the key k with a value of vals, or does not have it
OptField(k, vals) == {EmptyObj} \cup {k :> v : v \in vals}

Thumbnails == {EmptyObj, "high" :> EmptyObj, "high" :> ("url" :> ThumbUrl)}

Snippets ==
    {a @@ b @@ c @@ d :
        a \in OptField("title", {Rep("t", 30)}),
        b \in OptField("description", {Rep("d", 100)}),
        c \in OptField("tags", {<< >>, <<<<"k">>, <<"s", "e", "o">>>>}),
        d \in OptField("thumbnails", Thumbnails)}

Statistics == {EmptyObj, "viewCount" :> <<"4", "2">>, "viewCount" :> <<"4", "k">>,
               "likeCount" :> <<"7">>}

ContentDetails == {EmptyObj, "duration" :> Duration}

Items ==
    {a @@ b @@ c :
        a \in OptField("snippet", Snippets),
        b \in OptField("statistics", Statistics),
        c \in OptField("contentDetails", ContentDetails)}

\* the code reads only the first item; the items after it come from two
OtherItems == {EmptyObj, FullItem}

ItemLists ==
    {<< >>} \cup
    {<<first>> \o rest : first \in Items, rest \in SeqsUpTo(OtherItems, MaxItems - 1)}

MetadataBodies ==
    {EmptyObj, "kind" :> "youtube#videoListResponse"}
    \cup {"items" :> items : items \in ItemLists}

MetadataInputs ==
    {[kind |-> "error", text |-> <<"Connection refused">>]}
    \cup {[kind |-> "response", status |-> st, is_json |-> TRUE, data |-> EmptyObj] :
            st \in {403, 404, 500}}
    \cup {[kind |-> "response", status |-> 200, is_json |-> FALSE, data |-> EmptyObj]}
    \cup {[kind |-> "response", status |-> st, is_json |-> TRUE, data |-> body] :
            st \in {200}, body \in MetadataBodies}

InitMeta ==
    /\ arg \in MetadataInputs
    /\ ret = Unset
    /\ pc = "meta_call"
    /\ environ \in {EmptyObj, "YOUTUBE_API_KEY" :> "key"}
    /\ str_impl \in StrImpls
    /\ url = << >>
    /\ Idle

call_get_video_details ==
    /\ pc = "meta_call"
    /\ ret' = get_video_details(environ, str_impl, arg)
    /\ pc' = "meta_returned"
    /\ UNCHANGED <<environ, str_impl, url, calls, video_id, video_info,
                   transcript_text, gemini_analysis, failed_at, raised,
                   response, arg>>

NextMeta == call_get_video_details

SpecMeta == InitMeta /\ [][NextMeta]_vars

\* get_video_details has returned or raised after a 2xx response
Returned2xx ==
    /\ pc = "meta_returned"
    /\ CallsMetadataService(environ)
    /\ arg.kind = "response"
    /\ ~RaisesForStatus(arg.status)

DetailFields == {"title", "description", "tags", "thumbnail", "view_count", "duration"}

\* the record has all six fields, each the upstream value or its default
AllSixDefaulted(rec, item) ==
    LET snippet == Get(item, "snippet", EmptyObj)
        statistics == Get(item, "statistics", EmptyObj)
        content_details == Get(item, "contentDetails", EmptyObj)
        thumbnails == Get(snippet, "thumbnails", EmptyObj)
        high == Get(thumbnails, "high", EmptyObj)
    IN  /\ DOMAIN rec = DetailFields
        /\ rec.title = (IF "title" \in DOMAIN snippet THEN snippet.title ELSE << >>)
        /\ rec.description =
              (IF "description" \in DOMAIN snippet THEN snippet.description ELSE << >>)
        /\ rec.tags = (IF "tags" \in DOMAIN snippet THEN snippet.tags ELSE << >>)
        /\ rec.thumbnail = (IF "url" \in DOMAIN high THEN high.url ELSE << >>)
        /\ "viewCount" \notin DOMAIN statistics => rec.view_count = 0
        /\ rec.view_count \in Nat
        /\ rec.duration =
              (IF "duration" \in DOMAIN content_details
               THEN content_details.duration ELSE << >>)

\* C10 (as claimed): after every successful response, a 2xx status with a
\* JSON video list of well-typed items as its body, get_video_details
\* returns a record with all six fields present and does not fail.
C10_Every2xxYieldsRecord ==
    (Returned2xx /\ arg.is_json /\ "items" \in DOMAIN arg.data
       /\ \A i \in 1..Len(arg.data.items) :
             LET statistics == Get(arg.data.items[i], "statistics", EmptyObj)
             IN  "viewCount" \in DOMAIN statistics => IsNumeral(statistics.viewCount)) =>
        /\ ret.tag = "ok"
        /\ DOMAIN ret.value = DetailFields

\* the 2xx body is JSON with a non-empty items list whose first item has, if
\* it has a view count at all, a decimal numeral
HasWellFormedItem ==
    /\ arg.is_json
    /\ "items" \in DOMAIN arg.data
    /\ arg.data.items # << >>
    /\ LET statistics == Get(arg.data.items[1], "statistics", EmptyObj)
       IN  "viewCount" \in DOMAIN statistics => IsNumeral(statistics.viewCount)

\* C10 (amended): after a 2xx response whose items list is non-empty,
\* whatever optional fields the first item omits, get_video_details returns
\* a record with all six fields present and defaulted; after a 2xx response
\* whose items list is empty it fails with status 500.
C10_NonEmptyItemsYieldRecord ==
    /\ (Returned2xx /\ HasWellFormedItem) =>
          /\ ret.tag = "ok"
          /\ AllSixDefaulted(ret.value, arg.data.items[1])
    /\ (Returned2xx /\ arg.is_json /\ "items" \in DOMAIN arg.data
          /\ arg.data.items = << >>) =>
          /\ ret.tag = "HTTPException"
          /\ ret.status_code = 500

C10_Witness ==
    /\ Returned2xx
    /\ HasWellFormedItem
    /\ DOMAIN arg.data.items[1] = {}
    /\ ret.tag = "ok"
    /\ ret.value.tags = << >>
    /\ ret.value.thumbnail = << >>
    /\ ret.value.view_count = 0

====
